---- MODULE Spec2Model ----
(***************************************************************************)
(* A model of gfile.py: the GFile upload coordinator (upload, upload_chunk *)
(* and its throttled producer gen, the ThreadPoolExecutor it drives) and   *)
(* the direct-mode download (download).                                    *)
(*                                                                         *)
(* Thread 0 is the thread that calls upload(); threads 1..thread_num are   *)
(* the workers of the ThreadPoolExecutor.  Every thread runs upload_chunk  *)
(* through the same steps:                                                 *)
(*   send (the slices, then the cursor gate) -> wait -> inc_write -> store *)
(* Sizes are counted in bytes; the byte at offset i of the source file is  *)
(* identified with i, so a chunk is the pair (start, length).              *)
(*                                                                         *)
(* Specifications:                                                         *)
(*   Spec          one upload() call, any answers, errors and interrupts   *)
(*   SpecLive      upload() under fair scheduling, every POST answered     *)
(*                 with a success status                                   *)
(*   SpecFair      upload() under fair scheduling, every POST answered,    *)
(*                 with rejections and interrupts                          *)
(*   SpecAgain     upload() called again on the same object                *)
(*   SpecDownload  download() in direct and delegated mode                 *)
(*   SpecSizes     bytes_to_size_str and size_str_to_bytes                 *)
(***************************************************************************)
EXTENDS Integers, Sequences, FiniteSets, TLC

\* ---------------------------------------------------------------- bounds
MaxSize == 3          \* source files have 0..MaxSize bytes
MaxChunkSize == 2     \* chunk_size ranges over 1..MaxChunkSize
CopySize == 1         \* chunk_copy_size, the buffer of split_file's read loop
MaxThreads == 2       \* thread_num ranges over 1..MaxThreads
TickBytes == 2        \* update_tick of gen(), 128 KiB in the source, scaled down
Overhead == 1         \* bytes the multipart envelope adds to a chunk, scaled down
MaxLength == 2        \* Content-Length, and the bytes a download stream delivers
MaxBytes == 1200      \* bytes_to_size_str is applied to 0..MaxBytes

None == "None"
\* target_size=None, the default of split_file
NoTarget == -1

Min(a, b) == IF a < b THEN a ELSE b

\* math.ceil(a / b) for a >= 0, b >= 1
Ceil(a, b) == (a + b - 1) \div b

Threads == 0..MaxThreads
MainThread == 0
MaxChunks == Ceil(MaxSize, 1)
\* indices a chunk can have: 0 is always sent, 1..chunks-1 go to the pool
ChunkIds == 0..(IF MaxChunks > 1 THEN MaxChunks - 1 ELSE 0)

\* the JSON bodies a server can answer with: the status field is falsy
\* ("ok"), truthy ("fail") or absent ("missing"); the url field is present or not
Statuses == {"ok", "fail", "missing"}
Responses == [status : Statuses, url : BOOLEAN]
\* self.data = None, and a thread that holds no resp_data
NoData == [chunk |-> -1, status |-> None, url |-> FALSE]

VARIABLES
    \* ---- GFile configuration and the source file
    file_size,        \* Path(self.uri).stat().st_size
    chunk_size,       \* self.chunk_size
    chunk_copy_size,  \* self.chunk_copy_size
    thread_num,       \* self.thread_num
    \* ---- GFile runtime state
    current_chunk,    \* self.current_chunk
    failed,           \* self.failed
    data,             \* self.data: NoData or the response stored last
    \* ---- upload(): the calling thread
    mpc,              \* where upload() is
    chunks,           \* local chunks
    idx,              \* loop index of the submit loop and of the cancel loops
    exit_to,          \* what follows the executor's __exit__
    outcome,          \* None, Completed, Failed, Cancelled
    exc,              \* the exception upload() raised, or None
    reported,         \* the set of messages upload() printed
    \* ---- ThreadPoolExecutor
    futures,          \* chunk -> none, PENDING, RUNNING, FINISHED, CANCELLED
    queue,            \* the executor's work queue (FIFO of chunk indices)
    yielded,          \* futures as_completed has handed to the loop
    \* ---- upload_chunk(), per thread
    tpc,              \* where the thread is in upload_chunk
    task,             \* chunk_no
    body,             \* [start, len]: the bytes split_file copied
    offset,           \* gen(): offset
    resp,             \* resp_data
    tmp,              \* the value read by self.current_chunk += 1
    \* ---- observation (history) variables
    advanced,         \* chunk_no of every cursor write, in order
    acked,            \* chunks whose response was parsed by resp.json()
    started,          \* chunks whose first slice has been handed to the transport
    sent,             \* set of [chunk, start, len] requests a response was got for
    observed,         \* the as_completed loop has seen self.failed set
    last_url,         \* the response of chunk chunks-1 carried a url field
    other_url,        \* the response of a pooled chunk below chunks-1 carried one
    \* ---- download(): arguments, locals, and the two paths it touches
    dpc,              \* where download() is
    uri_ok,           \* self.uri matches the share-URL pattern of line 223
    aria2,            \* self.aria2 is set
    filename,         \* None, "arg" (given by the caller) or "web" (from web_name)
    web_name,         \* the local web_name is bound
    file_id,          \* the local file_id is bound
    filesize,         \* int(r.headers['Content-Length'])
    filesize_downloaded, \* Path(temp).stat().st_size of line 276
    fs,               \* temp and final path: [exists, size]
    requests,         \* what download() has asked of the outside so far
    dexc,             \* the exception download() raised, or None
    dresult,          \* what download() returned, or None
    dreported,        \* the set of messages download() printed
    \* ---- the size helpers: arguments and results
    spc,              \* which of the two helpers has been applied
    bytes,            \* the argument of bytes_to_size_str
    size_str,         \* the argument of size_str_to_bytes, a sequence of characters
    size_bytes        \* what size_str_to_bytes returned, AssertionFailed for its assert

cfgvars == <<file_size, chunk_size, chunk_copy_size, thread_num>>
objvars == <<current_chunk, failed, data>>
mainvars == <<mpc, chunks, idx, exit_to, outcome, exc, reported>>
poolvars == <<futures, queue, yielded>>
thrvars == <<tpc, task, body, offset, resp, tmp>>
histvars == <<advanced, acked, started, sent, observed, last_url, other_url>>
upvars == <<cfgvars, objvars, mainvars, poolvars, thrvars, histvars>>
dlvars == <<dpc, uri_ok, aria2, filename, web_name, file_id, filesize,
            filesize_downloaded, fs, requests,
            dexc, dresult, dreported>>
szvars == <<spc, bytes, size_str, size_bytes>>
vars == <<upvars, dlvars, szvars>>

\* ------------------------------------------------------------ split_file
\* the while loop of split_file: size bytes written so far, avail bytes left
\* in the file after the read position; -1 stands for the raised Exception
RECURSIVE split_loop(_, _, _, _)
split_loop(size, output_size, avail, copy_size) ==
    IF size = output_size THEN size
    ELSE IF size > output_size THEN -1
    ELSE LET current_chunk_size == Min(copy_size, output_size - size)
             n == Min(current_chunk_size, avail)      \* len(f.read(...))
         IN  IF n = 0 THEN size
             ELSE split_loop(size + n, output_size, avail - n, copy_size)

\* split_file(input_file, out, target_size, start, chunk_copy_size): the number
\* of bytes written to out, which are the bytes start .. start+result-1
split_file(input_size, target_size, start, copy_size) ==
    LET output_size == IF target_size = NoTarget THEN input_size - start
                       ELSE Min(target_size, input_size - start)
        avail == IF input_size > start THEN input_size - start ELSE 0
    IN  split_loop(0, output_size, avail, copy_size)

\* len(form_data_binary): the chunk's bytes inside the multipart envelope
FormSize(len) == len + Overhead

\* ------------------------------------------------------------------ Init
\* the GFile object after __init__ (lines 83-97), for every configuration and
\* source file within the bounds; self.failed does not exist before upload()
\* sets it on line 167 and is never read before, FALSE stands for that
InitObject ==
    /\ chunk_copy_size = CopySize
    /\ current_chunk = 0
    /\ failed = FALSE
    /\ data = NoData
    /\ mpc = "new"
    /\ chunks = 0
    /\ idx = 0
    /\ exit_to = None
    /\ outcome = None
    /\ exc = None
    /\ reported = {}
    /\ futures = [k \in ChunkIds |-> "none"]
    /\ queue = <<>>
    /\ yielded = {}
    /\ tpc = [t \in Threads |-> "idle"]
    /\ task = [t \in Threads |-> 0]
    /\ body = [t \in Threads |-> [start |-> 0, len |-> 0]]
    /\ offset = [t \in Threads |-> 0]
    /\ resp = [t \in Threads |-> NoData]
    /\ tmp = [t \in Threads |-> 0]
    /\ advanced = <<>>
    /\ acked = {}
    /\ started = {}
    /\ sent = {}
    /\ observed = FALSE
    /\ last_url = FALSE
    /\ other_url = FALSE
    /\ dpc = "new"
    /\ filesize = 0
    /\ filesize_downloaded = 0
    /\ web_name = FALSE
    /\ file_id = FALSE
    /\ requests = {}
    /\ dexc = None
    /\ dresult = None
    /\ dreported = {}

NoFile == [exists |-> FALSE, size |-> 0]

\* neither size helper is being applied
NoSizes ==
    /\ spc = "idle"
    /\ bytes = 0
    /\ size_str = <<>>
    /\ size_bytes = 0

\* a GFile made for an upload: uri is a local file of file_size bytes
Init ==
    /\ InitObject
    /\ NoSizes
    /\ file_size \in 0..MaxSize
    /\ chunk_size \in 1..MaxChunkSize
    /\ thread_num \in 1..MaxThreads
    /\ uri_ok = FALSE
    /\ aria2 = FALSE
    /\ filename = None
    /\ fs = [temp |-> NoFile, final |-> NoFile]

Workers == 1..thread_num
\* range(1, chunks)
Pooled == 1..(chunks - 1)

\* --------------------------------------------- upload_chunk(), lines 100-161
\* the locals of upload_chunk, which end with the call
NoLocals(t) ==
    /\ tpc' = [tpc EXCEPT ![t] = "idle"]
    /\ task' = [task EXCEPT ![t] = 0]
    /\ body' = [body EXCEPT ![t] = [start |-> 0, len |-> 0]]
    /\ offset' = [offset EXCEPT ![t] = 0]
    /\ resp' = [resp EXCEPT ![t] = NoData]
    /\ tmp' = [tmp EXCEPT ![t] = 0]

\* upload_chunk returns: the calling thread goes on to the pool (line 184),
\* a worker sets its future's result and is free again
Return(t) ==
    /\ NoLocals(t)
    /\ IF t = MainThread
       THEN /\ mpc' = "submit"
            /\ idx' = 1
            /\ UNCHANGED <<exc, futures>>
       ELSE /\ futures' = [futures EXCEPT ![task[t]] = "FINISHED"]
            /\ UNCHANGED <<mpc, idx, exc>>

\* upload_chunk raises e: out of upload() on the calling thread, into the
\* future on a worker (nothing ever asks the future for it)
Raise(t, e) ==
    /\ NoLocals(t)
    /\ IF t = MainThread
       THEN /\ mpc' = "raised"
            /\ exc' = e
            /\ UNCHANGED <<idx, futures>>
       ELSE /\ futures' = [futures EXCEPT ![task[t]] = "FINISHED"]
            /\ UNCHANGED <<mpc, idx, exc>>

\* lines 101-127 and 146: split_file copies the chunk's bytes, the multipart
\* body is built around them, and the retry loop is entered with a fresh gen()
\* (split_file raises only for a start beyond the end of the file, which
\* chunk_no * chunk_size is for no chunk that upload() sends)
Enter(t, chunk_no) ==
    LET start == chunk_no * chunk_size
        n == split_file(file_size, chunk_size, start, chunk_copy_size)
    IN  /\ n >= 0
        /\ tpc' = [tpc EXCEPT ![t] = "send"]
        /\ task' = [task EXCEPT ![t] = chunk_no]
        /\ body' = [body EXCEPT ![t] = [start |-> start, len |-> n]]
        /\ offset' = [offset EXCEPT ![t] = 0]
        /\ UNCHANGED <<resp, tmp>>

\* gen(), lines 131-137: the transport pulls the next slice of update_tick bytes
SendSlice(t) ==
    /\ tpc[t] = "send"
    /\ offset[t] < FormSize(body[t].len)
    /\ offset' = [offset EXCEPT ![t] = offset[t] + TickBytes]
    /\ started' = started \cup {task[t]}
    /\ UNCHANGED <<szvars, dlvars, cfgvars, objvars, mainvars, poolvars, tpc, task, body, resp, tmp,
                   advanced, acked, sent, observed, last_url, other_url>>

\* GatePass with the poll of line 139 left out: the producer ends after its
\* last slice whatever the cursor is
GatePass_NoPoll(t) ==
    /\ tpc[t] = "send"
    /\ offset[t] >= FormSize(body[t].len)
    /\ tpc' = [tpc EXCEPT ![t] = "wait"]
    /\ UNCHANGED <<szvars, dlvars, cfgvars, objvars, mainvars, poolvars, task, body, offset,
                   resp, tmp, histvars>>

\* GatePass with a gate that opens one chunk early: the producer ends when
\* the cursor is at this chunk or at the one before it
GatePass_OneAhead(t) ==
    /\ tpc[t] = "send"
    /\ offset[t] >= FormSize(body[t].len)
    /\ task[t] <= current_chunk + 1
    /\ tpc' = [tpc EXCEPT ![t] = "wait"]
    /\ UNCHANGED <<szvars, dlvars, cfgvars, objvars, mainvars, poolvars, task, body, offset,
                   resp, tmp, histvars>>

\* gen(), lines 138-143: every slice is out; the producer sleeps and polls
\* until the cursor is at this chunk, and only then ends, which completes the
\* request body (while it polls the thread takes no step)
GatePass(t) ==
    /\ tpc[t] = "send"
    /\ offset[t] >= FormSize(body[t].len)
    /\ task[t] = current_chunk
    /\ tpc' = [tpc EXCEPT ![t] = "wait"]
    /\ UNCHANGED <<szvars, dlvars, cfgvars, objvars, mainvars, poolvars, task, body, offset, resp, tmp,
                   histvars>>

\* TransportError with the handler of line 148 treating the exception as a
\* rejection: it sets self.failed before the chunk is sent again
TransportError_Fails(t) ==
    /\ tpc[t] \in {"send", "wait"}
    /\ tpc' = [tpc EXCEPT ![t] = "send"]
    /\ offset' = [offset EXCEPT ![t] = 0]
    /\ failed' = TRUE
    /\ UNCHANGED <<szvars, dlvars, cfgvars, current_chunk, data, mainvars, poolvars, task, body,
                   resp, tmp, histvars>>

\* lines 148-150 and 146: session.post raises (after the client's own retries):
\* the exception is printed and the loop sends the chunk again with a new gen()
TransportError(t) ==
    /\ tpc[t] \in {"send", "wait"}
    /\ tpc' = [tpc EXCEPT ![t] = "send"]
    /\ offset' = [offset EXCEPT ![t] = 0]
    /\ UNCHANGED <<szvars, dlvars, cfgvars, objvars, mainvars, poolvars, task, body, resp, tmp,
                   histvars>>

\* lines 147, 152, 154 and the read of line 155: the POST returns a response
\* whose body is the JSON r, and self.current_chunk += 1 reads the attribute
Receive(t, r) ==
    /\ tpc[t] = "wait"
    /\ resp' = [resp EXCEPT ![t] = [chunk |-> task[t], status |-> r.status, url |-> r.url]]
    /\ tmp' = [tmp EXCEPT ![t] = current_chunk]
    /\ acked' = acked \cup {task[t]}
    /\ sent' = sent \cup {[chunk |-> task[t], start |-> body[t].start, len |-> body[t].len]}
    /\ tpc' = [tpc EXCEPT ![t] = "inc_write"]
    /\ UNCHANGED <<szvars, dlvars, cfgvars, objvars, mainvars, poolvars, task, body, offset,
                   advanced, started, observed>>
    /\ last_url' = IF task[t] = chunks - 1 THEN r.url ELSE last_url
    /\ other_url' = IF task[t] >= 1 /\ task[t] < chunks - 1 THEN (other_url \/ r.url)
                    ELSE other_url

\* lines 147, 154: the POST returns a response whose body is no JSON, and
\* resp.json() raises
ReceiveNoJSON(t) ==
    /\ tpc[t] = "wait"
    /\ sent' = sent \cup {[chunk |-> task[t], start |-> body[t].start, len |-> body[t].len]}
    /\ Raise(t, "JSONDecodeError")
    /\ UNCHANGED <<szvars, dlvars, cfgvars, objvars, chunks, exit_to, outcome, reported, queue, yielded,
                   advanced, acked, started, observed, last_url, other_url>>

\* line 155, self.current_chunk += 1: the write of the attribute
IncWrite(t) ==
    /\ tpc[t] = "inc_write"
    /\ current_chunk' = tmp[t] + 1
    /\ advanced' = Append(advanced, task[t])
    /\ tpc' = [tpc EXCEPT ![t] = "store"]
    /\ UNCHANGED <<szvars, dlvars, cfgvars, failed, data, mainvars, poolvars, task, body, offset, resp,
                   tmp, acked, started, sent, observed, last_url, other_url>>

\* 'status' not in resp_data or resp_data['status'], line 159
Rejected(r) == r.status = "missing" \/ r.status = "fail"

\* StoreResult with line 157 keeping the first url: a response with a url
\* field becomes self.data only while self.data is None
StoreResult_KeepFirst(t) ==
    /\ tpc[t] = "store"
    /\ data' = IF resp[t].url /\ data = NoData THEN resp[t] ELSE data
    /\ failed' = IF Rejected(resp[t]) THEN TRUE ELSE failed
    /\ Return(t)
    /\ UNCHANGED <<szvars, dlvars, cfgvars, current_chunk, chunks, exit_to, outcome, reported,
                   queue, yielded, histvars>>

\* lines 157-161: a response with a url field becomes self.data, a missing or
\* truthy status sets self.failed, and upload_chunk returns
StoreResult(t) ==
    /\ tpc[t] = "store"
    /\ data' = IF resp[t].url THEN resp[t] ELSE data
    /\ failed' = IF Rejected(resp[t]) THEN TRUE ELSE failed
    /\ Return(t)
    /\ UNCHANGED <<szvars, dlvars, cfgvars, current_chunk, chunks, exit_to, outcome, reported,
                   queue, yielded, histvars>>

\* ------------------------------------------------- upload(), lines 164-178
\* lines 165-171: fresh token, failure flag cleared, chunk count computed
Upload ==
    /\ mpc = "new"
    /\ failed' = FALSE
    /\ chunks' = Ceil(file_size, chunk_size)
    /\ mpc' = "resolve"
    /\ UNCHANGED <<szvars, dlvars, cfgvars, current_chunk, data, idx, exit_to, outcome, exc, reported,
                   poolvars, thrvars, histvars>>

\* ResolveServer with line 181 left out: chunk 0 is not uploaded before the
\* pool is filled
ResolveServer_NoFirstChunk(found) ==
    /\ mpc = "resolve"
    /\ IF found
       THEN /\ mpc' = "submit"
            /\ idx' = 1
            /\ exc' = exc
       ELSE /\ mpc' = "raised"
            /\ exc' = "ServerResolutionFailed"
            /\ idx' = idx
    /\ UNCHANGED <<szvars, dlvars, cfgvars, objvars, chunks, exit_to, outcome, reported,
                   poolvars, thrvars, histvars>>

\* line 178: the GET of the entry page and the search for `var server = "..."`;
\* found: upload_chunk(0, chunks) is entered on the calling thread (line 181);
\* not found, or the GET raised: the exception leaves upload()
ResolveServer(found) ==
    /\ mpc = "resolve"
    /\ IF found
       THEN /\ mpc' = "chunk0"
            /\ Enter(MainThread, 0)
            /\ exc' = exc
       ELSE /\ mpc' = "raised"
            /\ exc' = "ServerResolutionFailed"
            /\ UNCHANGED thrvars
    /\ UNCHANGED <<szvars, dlvars, cfgvars, objvars, chunks, idx, exit_to, outcome, reported,
                   poolvars, histvars>>

\* ------------------------------------------------- upload(), lines 184-210
\* line 185: ex.submit(self.upload_chunk, i, chunks) for the next i of
\* range(1, chunks); after the last one the as_completed loop is entered
Submit ==
    /\ mpc = "submit"
    /\ IF idx \in Pooled
       THEN /\ futures' = [futures EXCEPT ![idx] = "PENDING"]
            /\ queue' = Append(queue, idx)
            /\ idx' = idx + 1
            /\ mpc' = mpc
       ELSE /\ mpc' = "as_completed"
            /\ UNCHANGED <<futures, queue, idx>>
    /\ UNCHANGED <<szvars, dlvars, cfgvars, objvars, chunks, exit_to, outcome, exc, reported, yielded,
                   thrvars, histvars>>

\* WorkerTake with an executor that ignores max_workers: it has a thread for
\* every work item, up to MaxThreads
WorkerTake_Unbounded(w) ==
    /\ w \in 1..MaxThreads
    /\ tpc[w] = "idle"
    /\ \A v \in 1..MaxThreads : tpc[v] = "idle" => w <= v
    /\ queue # <<>>
    /\ queue' = Tail(queue)
    /\ IF futures[Head(queue)] = "CANCELLED"
       THEN UNCHANGED <<futures, thrvars>>
       ELSE /\ futures' = [futures EXCEPT ![Head(queue)] = "RUNNING"]
            /\ Enter(w, Head(queue))
    /\ UNCHANGED <<szvars, dlvars, cfgvars, objvars, mainvars, yielded, histvars>>

\* ThreadPoolExecutor worker: a free worker takes the oldest work item; a
\* cancelled one is dropped, any other starts running upload_chunk (line 100).
\* The workers are alike and nothing in the program depends on which of the
\* free ones gets the item: the one with the lowest number is taken.
WorkerTake(w) ==
    /\ w \in Workers
    /\ tpc[w] = "idle"
    /\ \A v \in Workers : tpc[v] = "idle" => w <= v
    /\ queue # <<>>
    /\ queue' = Tail(queue)
    /\ IF futures[Head(queue)] = "CANCELLED"
       THEN UNCHANGED <<futures, thrvars>>
       ELSE /\ futures' = [futures EXCEPT ![Head(queue)] = "RUNNING"]
            /\ Enter(w, Head(queue))
    /\ UNCHANGED <<szvars, dlvars, cfgvars, objvars, mainvars, yielded, histvars>>

\* Future.cancel(): only a future that has not started is cancelled
cancel(state) == IF state = "PENDING" THEN "CANCELLED" ELSE state

\* Future.done()
done(state) == state \in {"FINISHED", "CANCELLED"}

\* lines 187-189: as_completed hands over a future that is done, and the loop
\* body reads self.failed; set: 'Failed!' is printed and the cancel loop starts
AsCompleted(i) ==
    /\ mpc = "as_completed"
    /\ i \in Pooled \ yielded
    /\ done(futures[i])
    /\ yielded' = yielded \cup {i}
    /\ IF failed
       THEN /\ mpc' = "cancel_failed"
            /\ idx' = 1
            /\ reported' = reported \cup {"Failed!"}
            /\ observed' = TRUE
       ELSE UNCHANGED <<mpc, idx, reported, observed>>
    /\ UNCHANGED <<szvars, dlvars, cfgvars, objvars, chunks, exit_to, outcome, exc, futures, queue,
                   thrvars, advanced, acked, started, sent, last_url, other_url>>

\* line 187: every future has been handed over, the loop ends and the with
\* block is left
AsCompletedEnd ==
    /\ mpc = "as_completed"
    /\ Pooled \subseteq yielded
    /\ mpc' = "shutdown"
    /\ exit_to' = "finish"
    /\ UNCHANGED <<szvars, dlvars, cfgvars, objvars, chunks, idx, outcome, exc, reported, poolvars,
                   thrvars, histvars>>

\* lines 190-192 and 195-197: future.cancel() for the next future of the dict,
\* and after the last one the return that leaves the with block
CancelLoop ==
    /\ mpc \in {"cancel_failed", "cancel_interrupt"}
    /\ IF idx \in Pooled
       THEN /\ futures' = [futures EXCEPT ![idx] = cancel(futures[idx])]
            /\ idx' = idx + 1
            /\ UNCHANGED <<mpc, exit_to>>
       ELSE /\ mpc' = "shutdown"
            /\ exit_to' = IF mpc = "cancel_failed" THEN "Failed" ELSE "Cancelled"
            /\ UNCHANGED <<futures, idx>>
    /\ UNCHANGED <<szvars, dlvars, cfgvars, objvars, chunks, outcome, exc, reported, queue, yielded,
                   thrvars, histvars>>

\* ThreadPoolExecutor.__exit__, shutdown(wait=True): the calling thread joins
\* the workers, which first empty the work queue; then the return, the raise
\* or the rest of upload() goes on
ExitPool ==
    /\ mpc = "shutdown"
    /\ queue = <<>>
    /\ \A w \in Workers : tpc[w] = "idle"
    /\ mpc' = CASE exit_to = "finish" -> "finish"
                [] exit_to \in {"Failed", "Cancelled"} -> "returned"
                [] OTHER -> "raised"
    /\ outcome' = IF exit_to \in {"Failed", "Cancelled"} THEN exit_to ELSE outcome
    /\ exc' = IF exit_to = "KeyboardInterrupt" THEN exit_to ELSE exc
    /\ UNCHANGED <<szvars, dlvars, cfgvars, objvars, chunks, idx, exit_to, reported, poolvars, thrvars,
                   histvars>>

\* lines 204-210: 'url' not in self.data raises TypeError when self.data is
\* None; otherwise the failure is printed if there is no url, and upload()
\* returns self
Finish ==
    /\ mpc = "finish"
    /\ IF data = NoData
       THEN /\ mpc' = "raised"
            /\ exc' = "TypeError"
            /\ UNCHANGED <<outcome, reported>>
       ELSE /\ mpc' = "returned"
            /\ outcome' = "Completed"
            /\ reported' = IF ~data.url THEN reported \cup {"Upload failed."} ELSE reported
            /\ exc' = exc
    /\ UNCHANGED <<szvars, dlvars, cfgvars, objvars, chunks, idx, exit_to, poolvars, thrvars, histvars>>

\* A KeyboardInterrupt is delivered to the calling thread.  Only the try of
\* lines 186-197 catches it (upload_chunk catches Exception, which it is not):
\*   line 178, 181, 204-210  it leaves upload()
\*   line 185                it leaves the with block, whose __exit__ joins the workers
\*   lines 187-192           the handler of line 193 prints and starts its cancel loop
\*   lines 195-197           it leaves the handler and the with block
\*   __exit__                it ends the join and leaves upload(), workers still running
Interrupt ==
    /\ mpc \in {"resolve", "chunk0", "submit", "as_completed", "cancel_failed",
                "cancel_interrupt", "shutdown", "finish"}
    /\ mpc' = CASE mpc \in {"resolve", "chunk0", "finish", "shutdown"} -> "raised"
                [] mpc \in {"submit", "cancel_interrupt"} -> "shutdown"
                [] OTHER -> "cancel_interrupt"
    /\ exc' = IF mpc \in {"resolve", "chunk0", "finish", "shutdown"}
              THEN "KeyboardInterrupt" ELSE exc
    /\ exit_to' = IF mpc \in {"submit", "cancel_interrupt"} THEN "KeyboardInterrupt"
                  ELSE exit_to
    /\ idx' = IF mpc \in {"as_completed", "cancel_failed"} THEN 1 ELSE idx
    /\ reported' = IF mpc \in {"as_completed", "cancel_failed"}
                   THEN reported \cup {"User cancelled the operation."} ELSE reported
    /\ IF mpc = "chunk0" THEN NoLocals(MainThread) ELSE UNCHANGED thrvars
    /\ UNCHANGED <<szvars, dlvars, cfgvars, objvars, chunks, outcome, poolvars, histvars>>

\* lines 213-219, get_download_page(): the url of self.data, if there is one
get_download_page == IF data = NoData \/ ~data.url THEN None ELSE "url"

\* a thread inside upload_chunk takes its next step
ChunkStep(t) ==
    \/ SendSlice(t)
    \/ GatePass(t)
    \/ TransportError(t)
    \/ \E r \in Responses : Receive(t, r)
    \/ ReceiveNoJSON(t)
    \/ IncWrite(t)
    \/ StoreResult(t)

Next ==
    \/ Upload
    \/ \E found \in BOOLEAN : ResolveServer(found)
    \/ \E t \in Threads : ChunkStep(t)
    \/ Submit
    \/ \E w \in Threads : WorkerTake(w)
    \/ \E i \in ChunkIds : AsCompleted(i)
    \/ AsCompletedEnd
    \/ CancelLoop
    \/ ExitPool
    \/ Finish
    \/ Interrupt

Spec == Init /\ [][Next]_vars

\* ------------------------------------------------------- fair scheduling
\* a thread inside upload_chunk takes its next step, every POST being answered
\* with a JSON body of one of the given statuses (no transport exception)
ChunkStepAnswered(t, statuses) ==
    \/ SendSlice(t)
    \/ GatePass(t)
    \/ \E r \in Responses : r.status \in statuses /\ Receive(t, r)
    \/ IncWrite(t)
    \/ StoreResult(t)

\* the steps of the calling thread outside upload_chunk
MainStep ==
    \/ Upload
    \/ \E found \in BOOLEAN : ResolveServer(found)
    \/ Submit
    \/ \E i \in ChunkIds : AsCompleted(i)
    \/ AsCompletedEnd
    \/ CancelLoop
    \/ ExitPool
    \/ Finish

\* the operating system runs every thread that can take a step, the executor
\* hands queued work to a free worker, and every POST is answered
Fairness(statuses) ==
    /\ WF_vars(MainStep)
    /\ WF_vars(\E w \in Threads : WorkerTake(w))
    /\ \A t \in Threads : WF_vars(ChunkStepAnswered(t, statuses))

\* upload() where the server is found and answers every POST with a success
\* status, and nobody interrupts
NextLive ==
    \/ Upload
    \/ ResolveServer(TRUE)
    \/ \E t \in Threads : ChunkStepAnswered(t, {"ok"})
    \/ Submit
    \/ \E w \in Threads : WorkerTake(w)
    \/ \E i \in ChunkIds : AsCompleted(i)
    \/ AsCompletedEnd
    \/ ExitPool
    \/ Finish

SpecLive == Init /\ [][NextLive]_vars /\ Fairness({"ok"})

\* upload() where every POST is answered with a JSON body of any status, and
\* the user may interrupt at any time
NextFair ==
    \/ Upload
    \/ \E found \in BOOLEAN : ResolveServer(found)
    \/ \E t \in Threads : ChunkStepAnswered(t, Statuses)
    \/ Submit
    \/ \E w \in Threads : WorkerTake(w)
    \/ \E i \in ChunkIds : AsCompleted(i)
    \/ AsCompletedEnd
    \/ CancelLoop
    \/ ExitPool
    \/ Finish
    \/ Interrupt

SpecFair == Init /\ [][NextFair]_vars /\ Fairness(Statuses)

\* ------------------------------------------- upload() called once more
\* the caller calls upload() again on the same GFile object after a call has
\* ended and its pool has come to rest: the locals of the call, its executor
\* and what was observed of it are new, the attributes of the object are what
\* the earlier call left (__init__, lines 83-97, does not run again)
UploadAgain ==
    /\ mpc \in {"returned", "raised"}
    /\ queue = <<>>
    /\ \A t \in Threads : tpc[t] = "idle"
    /\ mpc' = "new"
    /\ chunks' = 0
    /\ idx' = 0
    /\ exit_to' = None
    /\ outcome' = None
    /\ exc' = None
    /\ reported' = {}
    /\ futures' = [k \in ChunkIds |-> "none"]
    /\ yielded' = {}
    /\ advanced' = <<>>
    /\ acked' = {}
    /\ started' = {}
    /\ sent' = {}
    /\ observed' = FALSE
    /\ last_url' = FALSE
    /\ other_url' = FALSE
    /\ UNCHANGED <<szvars, dlvars, cfgvars, objvars, queue, thrvars>>

NextAgain ==
    \/ Next
    \/ UploadAgain

SpecAgain == Init /\ [][NextAgain]_vars

TypeOK ==
    /\ current_chunk \in 0..MaxChunks + 1
    /\ failed \in BOOLEAN
    /\ mpc \in {"new", "resolve", "chunk0", "submit", "as_completed", "cancel_failed",
                "cancel_interrupt", "shutdown", "finish", "returned", "raised"}
    /\ \A t \in Threads : tpc[t] \in {"idle", "send", "wait", "inc_write", "store"}

\* ---------------------------------------------- download(), lines 222-283
\* a file of the local filesystem
Files == {NoFile} \cup [exists : {TRUE}, size : 0..MaxLength]

\* a GFile made for a download: uri is a share URL (or not one); the caller
\* may pass a filename; temp and final path may exist from earlier runs
InitDownload ==
    /\ InitObject
    /\ NoSizes
    /\ file_size = 0
    /\ chunk_size = 1
    /\ thread_num = 1
    /\ uri_ok \in BOOLEAN
    /\ aria2 \in BOOLEAN
    /\ filename \in {None, "arg"}
    /\ fs \in [temp : Files, final : Files]

\* download() raises e
DownloadRaises(e) ==
    /\ dpc' = "raised"
    /\ dexc' = e

\* Download with the check of line 224 left out: the landing page is asked
\* for whatever the uri is
Download_NoCheck ==
    /\ dpc = "new"
    /\ dpc' = "page"
    /\ UNCHANGED <<szvars, upvars, uri_ok, aria2, filename, web_name, file_id, filesize,
                   filesize_downloaded, fs, requests, dexc, dresult, dreported>>

\* lines 223-226: a uri that is no share URL is reported and download() returns
Download ==
    /\ dpc = "new"
    /\ IF uri_ok
       THEN /\ dpc' = "page"
            /\ UNCHANGED dreported
       ELSE /\ dpc' = "returned"
            /\ dreported' = dreported \cup {"Invalid URL."}
    /\ UNCHANGED <<szvars, upvars, uri_ok, aria2, filename, web_name, file_id, filesize,
                   filesize_downloaded, fs, requests, dexc, dresult>>

\* what the parse of lines 228-241 can leave behind: the locals it bound
\* before an exception ended it (single-file page: file_id first; bundle
\* page: web_name, then file_id), and whether there was an exception
Pages ==
    {[file_id |-> TRUE, web_name |-> TRUE, error |-> FALSE],
     [file_id |-> TRUE, web_name |-> FALSE, error |-> TRUE],
     [file_id |-> FALSE, web_name |-> FALSE, error |-> TRUE],
     [file_id |-> FALSE, web_name |-> TRUE, error |-> TRUE],
     [file_id |-> TRUE, web_name |-> TRUE, error |-> TRUE]}

\* lines 227-245: the landing page is fetched and parsed; an exception of
\* the parse is caught and reported
GetPage(page) ==
    /\ dpc = "page"
    /\ requests' = requests \cup {"page"}
    /\ file_id' = page.file_id
    /\ web_name' = page.web_name
    /\ dreported' = IF page.error THEN dreported \cup {"ERROR! Failed to parse the page"}
                    ELSE dreported
    /\ dpc' = "name"
    /\ UNCHANGED <<szvars, upvars, uri_ok, aria2, filename, filesize, filesize_downloaded, fs,
                   dexc, dresult>>

\* line 227: the GET of the landing page raises
GetPageFails ==
    /\ dpc = "page"
    /\ requests' = requests \cup {"page"}
    /\ DownloadRaises("ConnectionError")
    /\ UNCHANGED <<szvars, upvars, uri_ok, aria2, filename, web_name, file_id, filesize,
                   filesize_downloaded, fs, dresult, dreported>>

\* lines 247-255: the filename defaults to the sanitized web_name, and the
\* download URL is built from file_id; reading a local the parse did not bind
\* raises UnboundLocalError
ResolveName ==
    /\ dpc = "name"
    /\ IF (filename = None /\ ~web_name) \/ ~file_id
       THEN /\ DownloadRaises("UnboundLocalError")
            /\ filename' = IF filename = None /\ web_name THEN "web" ELSE filename
       ELSE /\ filename' = IF filename = None THEN "web" ELSE filename
            /\ dpc' = IF aria2 THEN "aria2" ELSE "fetch"
            /\ UNCHANGED dexc
    /\ UNCHANGED <<szvars, upvars, uri_ok, aria2, web_name, file_id, filesize,
                   filesize_downloaded, fs, requests, dresult, dreported>>

\* lines 255-260: delegated mode runs aria2c and returns
RunAria2 ==
    /\ dpc = "aria2"
    /\ requests' = requests \cup {"aria2c"}
    /\ dpc' = "returned"
    /\ UNCHANGED <<szvars, upvars, uri_ok, aria2, filename, web_name, file_id, filesize,
                   filesize_downloaded, fs, dexc, dresult, dreported>>

\* lines 262-270: the file is requested, the status is good, Content-Length
\* is length, and temp is opened for writing, which creates or empties it
OpenStream(length) ==
    /\ dpc = "fetch"
    /\ requests' = requests \cup {"file"}
    /\ filesize' = length
    /\ fs' = [fs EXCEPT !.temp = [exists |-> TRUE, size |-> 0]]
    /\ dpc' = "stream"
    /\ UNCHANGED <<szvars, upvars, uri_ok, aria2, filename, web_name, file_id,
                   filesize_downloaded, dexc, dresult, dreported>>

\* lines 264-266: the GET raises, raise_for_status raises, or there is no
\* Content-Length header: download() raises before temp is opened
OpenStreamFails(e) ==
    /\ dpc = "fetch"
    /\ requests' = requests \cup {"file"}
    /\ DownloadRaises(e)
    /\ UNCHANGED <<szvars, upvars, uri_ok, aria2, filename, web_name, file_id, filesize,
                   filesize_downloaded, fs, dresult, dreported>>

\* lines 271-272: iter_content yields n bytes, at most chunk_copy_size, and
\* they are written to temp (iter_content yields the decoded body, whose
\* length is independent of Content-Length)
WriteChunk(n) ==
    /\ dpc = "stream"
    /\ n \in 1..chunk_copy_size
    /\ fs.temp.size + n <= MaxLength
    /\ fs' = [fs EXCEPT !.temp.size = fs.temp.size + n]
    /\ UNCHANGED <<szvars, upvars, dpc, uri_ok, aria2, filename, web_name, file_id, filesize,
                   filesize_downloaded, requests, dexc, dresult, dreported>>

\* line 271: the connection breaks and iter_content raises; the with blocks
\* close temp and the response
StreamFails ==
    /\ dpc = "stream"
    /\ DownloadRaises("ChunkedEncodingError")
    /\ UNCHANGED <<szvars, upvars, uri_ok, aria2, filename, web_name, file_id, filesize,
                   filesize_downloaded, fs, requests, dresult, dreported>>

\* a looser check than line 278: a file that is too short passes
Verified_AtMost(expected, actual) == actual <= expected

\* line 278: filesize == filesize_downloaded
Verified(expected, actual) == expected = actual

\* rename(temp, filename), line 280
rename(files) == [temp |-> NoFile, final |-> files.temp]

\* lines 274-283: the stream has ended; the size of temp is compared with
\* Content-Length; equal, temp is renamed to filename; unequal, the corrupt
\* file is reported and left; download() returns filename
StreamEnd ==
    /\ dpc = "stream"
    /\ filesize_downloaded' = fs.temp.size
    /\ IF Verified(filesize, fs.temp.size)
       THEN /\ fs' = rename(fs)
            /\ dreported' = dreported \cup {"Succeeded."}
       ELSE /\ fs' = fs
            /\ dreported' = dreported \cup {"Downloaded file is corrupt."}
    /\ dresult' = filename
    /\ dpc' = "returned"
    /\ UNCHANGED <<szvars, upvars, uri_ok, aria2, filename, web_name, file_id, filesize,
                   requests, dexc>>

NextDownload ==
    \/ Download
    \/ \E page \in Pages : GetPage(page)
    \/ GetPageFails
    \/ ResolveName
    \/ RunAria2
    \/ \E length \in 0..MaxLength : OpenStream(length)
    \/ \E e \in {"ConnectionError", "HTTPError", "KeyError"} : OpenStreamFails(e)
    \/ \E n \in 1..MaxLength : WriteChunk(n)
    \/ StreamFails
    \/ StreamEnd

SpecDownload == InitDownload /\ [][NextDownload]_vars

\* ------------------------------------------- the size helpers, lines 21-37
\* a string is the sequence of its characters
DigitChars == <<"0", "1", "2", "3", "4", "5", "6", "7", "8", "9">>
IsDigit(c) == \E d \in 1..10 : DigitChars[d] = c
DigitValue(c) == (CHOOSE d \in 1..10 : DigitChars[d] = c) - 1

\* the decimal numeral of n >= 0, as str() and the format of line 27 write it
RECURSIVE Decimal(_)
Decimal(n) == IF n < 10 THEN <<DigitChars[n + 1]>>
              ELSE Append(Decimal(n \div 10), DigitChars[(n % 10) + 1])

\* int(num) for a sequence of digits
RECURSIVE IntOfDigits(_)
IntOfDigits(ds) ==
    IF ds = <<>> THEN 0
    ELSE 10 * IntOfDigits(SubSeq(ds, 1, Len(ds) - 1)) + DigitValue(ds[Len(ds)])

RECURSIVE Pow1024(_)
Pow1024(i) == IF i = 0 THEN 1 ELSE 1024 * Pow1024(i - 1)

\* int(math.floor(math.log(n, 1024))) for n >= 1, line 25
RECURSIVE FloorLog1024(_)
FloorLog1024(n) == IF n < 1024 THEN 0 ELSE 1 + FloorLog1024(n \div 1024)

\* units of bytes_to_size_str (line 24) and of size_str_to_bytes (line 35)
FormatUnits == << <<"B">>, <<"K", "B">>, <<"M", "B">>, <<"G", "B">>, <<"T", "B">>,
                 <<"P", "B">>, <<"E", "B">>, <<"Z", "B">>, <<"Y", "B">> >>
ParseUnits == <<"B", "K", "M", "G", "T", "P", "E", "Z", "Y">>

\* f"{x:.02f}" for x = n / p: the value rounded to hundredths, ties to even
\* (n / p is exact in binary for p a power of 1024), as numeral "d.dd"
Hundredths(n, p) ==
    LET q == (n * 100) \div p
        rem == (n * 100) % p
    IN  IF 2 * rem > p \/ (2 * rem = p /\ q % 2 = 1) THEN q + 1 ELSE q

TwoDecimals(h) ==
    Decimal(h \div 100) \o <<".">> \o <<DigitChars[((h % 100) \div 10) + 1]>>
        \o <<DigitChars[(h % 10) + 1]>>

\* bytes_to_size_str, lines 21-27
bytes_to_size_str(n) ==
    IF n = 0 THEN <<"0", "B">>
    ELSE LET i == FloorLog1024(n)
             p == Pow1024(i)
         IN  TwoDecimals(Hundredths(n, p)) \o <<" ">> \o FormatUnits[i + 1]

\* the assert of line 34 fails
AssertionFailed == -1

\* str.upper() of the characters the pattern of line 33 lets through
Upper(c) == CASE c = "k" -> "K" [] c = "m" -> "M" [] c = "g" -> "G" [] c = "t" -> "T"
              [] c = "p" -> "P" [] c = "e" -> "E" [] c = "z" -> "Z" [] c = "y" -> "Y"
              [] c = "b" -> "B" [] c = "i" -> "I" [] OTHER -> c

\* the number of digits s begins with: what (?P<num>\d+) takes
RECURSIVE DigitPrefix(_)
DigitPrefix(s) == IF s # <<>> /\ IsDigit(Head(s)) THEN 1 + DigitPrefix(Tail(s)) ELSE 0

\* size_str_to_bytes, lines 33-37, for a string: the pattern
\*   ^(?P<num>\d+) ?((?P<unit>[KMGTPEZY]?)(iB|B)?)$   with re.IGNORECASE
\* is matched from the left (no step of it has a second way to match), then
\* 1024 ** units.index(unit) * int(num)
size_str_to_bytes(s) ==
    LET k == DigitPrefix(s)
        num == SubSeq(s, 1, k)
        r1 == SubSeq(s, k + 1, Len(s))
        r2 == IF r1 # <<>> /\ Head(r1) = " " THEN Tail(r1) ELSE r1
        hasUnit == r2 # <<>> /\ \E u \in 2..9 : ParseUnits[u] = Upper(Head(r2))
        unit == IF hasUnit THEN Upper(Head(r2)) ELSE "B"
        r3 == IF hasUnit THEN Tail(r2) ELSE r2
        suffix == [j \in 1..Len(r3) |-> Upper(r3[j])]
        m == k >= 1 /\ suffix \in {<<>>, <<"B">>, <<"I", "B">>}
        index == CHOOSE u \in 1..9 : ParseUnits[u] = unit
    IN  IF m THEN Pow1024(index - 1) * IntOfDigits(num) ELSE AssertionFailed

\* size strings a caller passes for chunk_size or chunk_copy_size (__init__,
\* lines 85-86)
SizeArguments ==
    { <<"1", "0">>, <<"1", "0", " ">>, <<"1", "0", " ", "K">>, <<"3", "k", "b">>,
      <<"2", "M", "i", "B">>, <<"7", "B">>, <<"1", ".", "5", " ", "M", "B">>,
      <<"K">>, <<"1", "0", " ", " ", "K">>, <<"1", "0", "K", "i">> }

\* the helpers applied to every number of bytes within the bound
InitSizes ==
    /\ InitObject
    /\ file_size = 0
    /\ chunk_size = 1
    /\ thread_num = 1
    /\ uri_ok = FALSE
    /\ aria2 = FALSE
    /\ filename = None
    /\ fs = [temp |-> NoFile, final |-> NoFile]
    /\ spc = "new"
    /\ bytes \in 0..MaxBytes
    /\ size_str = <<>>
    /\ size_bytes = 0

\* bytes_to_size_str(bytes) is rendered
FormatSize ==
    /\ spc = "new"
    /\ size_str' = bytes_to_size_str(bytes)
    /\ spc' = "formatted"
    /\ UNCHANGED <<upvars, dlvars, bytes, size_bytes>>

\* a caller's size string takes the place of the rendering (bytes plays no
\* part in it: the step is taken for bytes = 0 alone)
GivenSize(s) ==
    /\ spc = "new"
    /\ bytes = 0
    /\ size_str' = s
    /\ spc' = "given"
    /\ UNCHANGED <<upvars, dlvars, bytes, size_bytes>>

\* size_str_to_bytes(size_str) is evaluated
ParseSize ==
    /\ spc \in {"formatted", "given"}
    /\ size_bytes' = size_str_to_bytes(size_str)
    /\ spc' = IF spc = "formatted" THEN "roundtrip" ELSE "parsed"
    /\ UNCHANGED <<upvars, dlvars, bytes, size_str>>

NextSizes ==
    \/ FormatSize
    \/ \E s \in SizeArguments : GivenSize(s)
    \/ ParseSize

SpecSizes == InitSizes /\ [][NextSizes]_vars

\* ---------------------------------------------------------------- claims
\* the number of times the cursor was written for chunk k
Advances(k) == Cardinality({i \in DOMAIN advanced : advanced[i] = k})

\* C1: the cursor takes the values 0, 1, 2, ... one by one: its i-th write is
\* made for chunk i-1, so it is written for chunk k only after it was written
\* for every chunk below k; and the POST of chunk k completes (its body ends,
\* its response arrives) only while the cursor is k
C1_CursorInOrder ==
    /\ current_chunk = Len(advanced)
    /\ \A i \in DOMAIN advanced : advanced[i] = i - 1
    /\ \A t \in Threads : tpc[t] \in {"wait", "inc_write"} => current_chunk = task[t]
    /\ \A t \in Threads : tpc[t] = "inc_write" => tmp[t] = task[t]

\* C1 witness: chunk 2 has handed over all its slices and polls at the gate
\* while chunk 1, on another worker, has only just advanced the cursor
C1_Witness ==
    \E t1, t2 \in Workers :
        /\ task[t1] = 1 /\ tpc[t1] = "store" /\ advanced = <<0, 1>>
        /\ task[t2] = 2 /\ tpc[t2] = "send" /\ offset[t2] >= FormSize(body[t2].len)

\* C2: a chunk with index >= 1 is submitted to the pool, or has a slice of it
\* sent, only after upload_chunk(0) has returned with its response parsed and
\* the cursor advanced to 1
C2_FirstChunkAlone ==
    (\E k \in ChunkIds : k >= 1 /\ (futures[k] # "none" \/ k \in started))
        => /\ 0 \in acked
           /\ current_chunk >= 1
           /\ Advances(0) = 1
           /\ tpc[MainThread] = "idle"

\* C2 witness: chunk 1 is in the pool and has begun its transfer
C2_Witness == futures[1] = "RUNNING" /\ 1 \in started /\ current_chunk = 1

\* C3 (as claimed): once the as_completed loop has seen the failure flag, no
\* future that has not started running starts running
C3_NoStartAfterObserved ==
    [][observed => \A k \in ChunkIds : futures[k] = "PENDING" => futures'[k] # "RUNNING"]_vars

\* C4 (as claimed): with at least one chunk, a rejected response (truthy or
\* missing status), which is what sets the failure flag, keeps upload() from
\* ending in Completed
C4_RejectionNeverCompletes == (chunks >= 1 /\ failed) => outcome # "Completed"

\* C5 (as claimed): when chunk 0's response was rejected (the flag is set before
\* anything is submitted), no chunk is submitted to the pool
C5_NoSubmitAfterFirstFails ==
    [][(mpc = "submit" /\ idx = 1 /\ failed) => futures' = futures]_vars

\* C6 (as claimed): a KeyboardInterrupt never leaves upload() as an exception
C6_InterruptNeverRaises == ~(mpc = "raised" /\ exc = "KeyboardInterrupt")

\* thread t takes the step of the except branch: the request it was sending
\* is dropped and the producer starts again at offset 0
IsRetry(t) ==
    /\ tpc[t] \in {"send", "wait"}
    /\ tpc[t] = "wait" \/ offset[t] > 0
    /\ tpc'[t] = "send"
    /\ offset'[t] = 0

\* C7: a transport-level exception of a pooled chunk leaves the failure flag
\* and the cursor as they are and sends the same chunk again from offset 0;
\* and in every state the cursor has been written at most once for a chunk,
\* exactly once when the chunk's response has been parsed and handled
C7_RetryIsInvisible ==
    [][/\ \A t \in Workers :
            (IsRetry(t) /\ task[t] >= 1)
                => /\ failed' = failed
                   /\ current_chunk' = current_chunk
                   /\ advanced' = advanced
                   /\ task'[t] = task[t]
                   /\ body'[t] = body[t]
       /\ \A k \in ChunkIds :
            /\ Advances(k)' <= 1
            /\ (k >= 1 /\ k \in acked' /\ futures'[k] = "FINISHED") => Advances(k)' = 1
       /\ \A t \in Workers : tpc'[t] = "store" => Advances(task[t])' = 1]_vars

\* C7 witness: a pooled chunk whose slices had begun to go out is back at
\* offset 0 of a new producer, the cursor and the flag untouched
C7_Witness ==
    \E t \in Workers :
        /\ task[t] >= 1 /\ tpc[t] = "send" /\ offset[t] = 0 /\ task[t] \in started
        /\ ~failed /\ current_chunk = 1

\* C8 (as claimed): when no response carried a url and none was rejected,
\* upload() does not raise (it reports the failure)
C8_NoUrlIsReported == ~(chunks >= 1 /\ ~failed /\ mpc = "raised" /\ exc = "TypeError")

\* the requests of a file of S bytes in chunks of C bytes: one per index below
\* ceil(S / C), chunk i carrying the bytes from i*C up to min((i+1)*C, S)
ExpectedRequests(S, C) ==
    {[chunk |-> i, start |-> i * C, len |-> Min((i + 1) * C, S) - i * C] :
        i \in 0..(Ceil(S, C) - 1)}

\* C9 (as claimed): a Completed upload has sent exactly the expected requests
C9_ExactChunks ==
    outcome = "Completed" => sent = ExpectedRequests(file_size, chunk_size)

\* C10: the step that follows the end of the stream renames temp to the final
\* name exactly when temp is as long as Content-Length says, and reports
\* success; otherwise both paths stay as they are, temp still there, and the
\* corruption is reported.  No other step of download() creates or changes
\* the final name or removes temp.
C10_RenameIffVerified ==
    [][/\ (dpc = "stream" /\ dpc' = "returned")
            => IF fs.temp.size = filesize
               THEN /\ fs'.final = fs.temp
                    /\ ~fs'.temp.exists
                    /\ "Succeeded." \in dreported'
               ELSE /\ fs' = fs
                    /\ fs'.temp.exists
                    /\ "Downloaded file is corrupt." \in dreported'
                    /\ "Succeeded." \notin dreported'
       /\ ~(dpc = "stream" /\ dpc' = "returned")
            => /\ fs'.final = fs.final
               /\ fs.temp.exists => fs'.temp.exists]_vars

\* C10 witness: the stream delivered one byte less than Content-Length, and
\* download() has returned with the short temp file in place, no final file,
\* and the corruption reported
C10_Witness ==
    /\ dpc = "returned"
    /\ "file" \in requests
    /\ filesize_downloaded + 1 = filesize
    /\ fs.temp = [exists |-> TRUE, size |-> filesize_downloaded]
    /\ ~fs.final.exists
    /\ "Downloaded file is corrupt." \in dreported

\* C11 (as claimed): after the parse error of the landing page was reported,
\* download() does not raise on its way to the file request: it either goes on
\* to the request (file id and a file name at hand) or stops
C11_ParseErrorNotRaised ==
    ("ERROR! Failed to parse the page" \in dreported /\ dpc = "raised")
        => ("file" \in requests \/ "aria2c" \in requests)

\* C12: for a uri that is no share URL, download() reports 'Invalid URL.' and
\* returns at once: no request is made and no process run at any time, no
\* step creates, changes or renames a file, and nothing is raised
C12_InvalidUrlDoesNothing ==
    [][~uri_ok =>
        /\ requests' = {}
        /\ fs' = fs
        /\ dexc' = None
        /\ dpc' \in {"new", "returned"}
        /\ dpc' = "returned" => ("Invalid URL." \in dreported' /\ dresult' = None)]_vars

\* C12 witness: download() has returned for a uri that is no share URL, in
\* delegated mode and with a temp file of an earlier run still in place
C12_Witness ==
    /\ ~uri_ok /\ aria2 /\ dpc = "returned"
    /\ "Invalid URL." \in dreported
    /\ fs.temp.exists /\ ~fs.final.exists
    /\ requests = {}

\* C13 (as claimed): size_str_to_bytes(bytes_to_size_str(n)) is defined and
\* within 1% of n
C13_RoundTrip ==
    spc = "roundtrip"
        => /\ size_bytes # AssertionFailed
           /\ 100 * (size_bytes - bytes) <= bytes
           /\ 100 * (bytes - size_bytes) <= bytes

\* C14 (as claimed): chunk 0 is not sent again after a transport-level
\* exception of its POST: no step of upload_chunk(0) on the calling thread
\* drops the request and restarts the producer at offset 0
C14_FirstChunkNotResent ==
    [][~(mpc = "chunk0" /\ task[MainThread] = 0 /\ IsRetry(MainThread))]_vars

\* C15 (as claimed): with fair scheduling and every POST answered with a
\* success status, upload() reaches Completed with the cursor at the number
\* of chunks
C15_EventuallyCompleted ==
    <>(mpc = "returned" /\ outcome = "Completed" /\ current_chunk = chunks)

\* C16 (as claimed): with fair scheduling, once the failure flag is set or
\* the handler of line 193 has caught an interrupt, upload() ends
C16_EventuallyReturns ==
    (failed \/ mpc = "cancel_interrupt") ~> (mpc \in {"returned", "raised"})

\* the threads between the read and the write of self.current_chunk += 1
Incrementing == {t \in Threads : tpc[t] = "inc_write"}

\* chunk 0 when a KeyboardInterrupt ended upload_chunk(0) on the calling
\* thread after resp.json() and before the cursor was written
CutShort ==
    IF mpc = "raised" /\ exc = "KeyboardInterrupt" /\ Advances(0) = 0 THEN {0} ELSE {}

\* C17: no increment of the cursor is lost.  At most one thread is between
\* the read and the write of line 155, and the value it read is still the
\* cursor when it writes; so the cursor is the number of chunks that have
\* advanced it, which are the chunks whose response was received and parsed
\* but for the one that is in the middle of its increment (or was cut short
\* there by an interrupt that ended upload())
C17_NoLostIncrement ==
    /\ Cardinality(Incrementing) <= 1
    /\ \A t \in Incrementing : tmp[t] = current_chunk
    /\ current_chunk = Cardinality({k \in ChunkIds : Advances(k) >= 1})
    /\ current_chunk = Cardinality(acked \ CutShort) - Cardinality(Incrementing)
    /\ \A k \in ChunkIds : (k >= 1 /\ k \in acked /\ futures[k] = "FINISHED")
                                => k < current_chunk

\* C17 witness: a worker is between the read and the write of the cursor
\* while the worker of the next chunk, all its slices sent, polls the cursor
C17_Witness ==
    \E t1, t2 \in Workers :
        /\ tpc[t1] = "inc_write"
        /\ tpc[t2] = "send" /\ offset[t2] >= FormSize(body[t2].len)
        /\ task[t2] = task[t1] + 1

\* C18 (as claimed): when upload() ends in Completed and the response of
\* chunk chunks-1 carried a url field, self.data is that response
C18_ResultIsLastChunk ==
    (outcome = "Completed" /\ chunks >= 1 /\ last_url) => data.chunk = chunks - 1

\* C18 (amended): when upload() ends in Completed and the response of chunk
\* chunks-1 carried a url field, self.data is that response provided the pool
\* has one worker or no response of an earlier pooled chunk carried a url
\* field; and self.data always is a response that carried one
C18_ResultIsLastUrlStored ==
    /\ (outcome = "Completed" /\ chunks >= 1 /\ last_url
            /\ (thread_num = 1 \/ ~other_url))
        => data.chunk = chunks - 1
    /\ data # NoData => (data.url /\ data.chunk \in acked)

\* C18 witness: a Completed upload of three chunks by two workers where the
\* response of chunk 2 carried a url field and that of chunk 1 none: the
\* response of chunk 2 is stored
C18_Witness ==
    /\ outcome = "Completed" /\ chunks = 3 /\ thread_num = 2
    /\ last_url /\ ~other_url
    /\ data.chunk = 2
    /\ "Upload failed." \notin reported

\* C19 (as claimed): when upload() has set up its call (lines 165-171), the
\* cursor is 0, the failure flag is false and no response is stored
C19_FreshRuntimeState ==
    mpc = "resolve" => (current_chunk = 0 /\ ~failed /\ data = NoData)

\* the pooled chunks in flight: their future is running, which is when a
\* thread of the pool is inside upload_chunk for them
InFlight == {k \in ChunkIds : futures[k] = "RUNNING"}
Busy == {t \in 1..MaxThreads : tpc[t] # "idle"}

\* C20: at most thread_num pooled chunks are in flight at once; none is in
\* flight, or waiting in the pool, before upload_chunk(0) has returned on the
\* calling thread; and none after upload() has returned
C20_AtMostNInFlight ==
    /\ Cardinality(InFlight) <= thread_num
    /\ Cardinality(Busy) = Cardinality(InFlight)
    /\ \A t \in Busy : task[t] \in InFlight /\ task[t] >= 1
    /\ mpc \in {"new", "resolve", "chunk0"}
        => (Busy = {} /\ queue = <<>> /\ \A k \in ChunkIds : futures[k] = "none")
    /\ mpc = "returned"
        => (Busy = {} /\ queue = <<>> /\ \A k \in ChunkIds : futures[k] \notin {"PENDING", "RUNNING"})

\* C20 witness: a pool of one worker with two chunks submitted: chunk 1 is
\* in flight and chunk 2 waits in the queue
C20_Witness ==
    /\ thread_num = 1
    /\ futures[1] = "RUNNING" /\ futures[2] = "PENDING"
    /\ queue = <<2>>
    /\ Busy = {1}

\* ------------------------------------------------- what holds around them
\* an exit of upload() by exception can leave pooled chunks in flight only
\* when a KeyboardInterrupt ended the join of the executor's __exit__
RaisedWithChunksInFlight ==
    (mpc = "raised" /\ Busy # {}) => (exc = "KeyboardInterrupt" /\ exit_to # None)

\* the failure flag is the one attribute upload() sets anew (line 167)
FlagIsReset == mpc = "resolve" => ~failed

\* chunk 0 of a call that found the cursor above 0 never gets past the gate:
\* its producer stays where it is until an interrupt ends the call
FirstChunkStuckAfterReuse ==
    [][(mpc = "chunk0" /\ tpc[MainThread] = "send" /\ current_chunk > 0)
            => (tpc'[MainThread] \in {"send", "idle"} /\ current_chunk' = current_chunk
                /\ mpc' \in {"chunk0", "raised"})]_vars

\* a worker at the gate below which a chunk was cancelled (or dropped from the
\* queue as cancelled) waits for a cursor value that no chunk will write
StuckAtGate(t) ==
    /\ tpc[t] = "send"
    /\ \E k \in current_chunk..(task[t] - 1) : futures[k] = "CANCELLED"

\* (as C16 implies) no running chunk has a cancelled chunk between the cursor
\* and itself
NoWorkerStuckAtGate == \A t \in Workers : ~StuckAtGate(t)

\* with fair scheduling and success answers upload() always ends: no worker
\* stays at the cursor gate
LiveUploadEnds == <>(mpc \in {"returned", "raised"})

\* how it ends: every chunk is sent and the cursor is at their number, which
\* is 1 for the empty file; Completed when a response carried a url,
\* TypeError (line 208) when none did
LiveUploadResult ==
    /\ mpc \in {"returned", "raised"}
        => /\ sent = ExpectedRequests(file_size, chunk_size)
                    \cup {[chunk |-> 0, start |-> 0, len |-> Min(chunk_size, file_size)]}
           /\ current_chunk = (IF chunks = 0 THEN 1 ELSE chunks)
    /\ mpc = "returned" => (outcome = "Completed" /\ data.url)
    /\ mpc = "raised" => (exc = "TypeError" /\ data = NoData)

\* the chunk the cursor is at is running whenever a later one is: the work
\* queue is FIFO and nothing was cancelled
LiveCursorChunkRuns ==
    \A t \in Workers :
        (tpc[t] # "idle" /\ task[t] > current_chunk)
            => \E u \in Workers : tpc[u] # "idle" /\ task[u] = current_chunk

\* the round trip is defined for 0 alone: every other rendering has a decimal
\* point, which the pattern of line 33 does not take
RoundTripOnlyZero ==
    spc = "roundtrip" => (size_bytes # AssertionFailed <=> bytes = 0)

\* what size_str_to_bytes makes of a caller's size strings
SizeArgumentsParsed ==
    spc = "parsed" =>
        size_bytes = CASE size_str = <<"1", "0">> -> 10
                       [] size_str = <<"1", "0", " ">> -> 10
                       [] size_str = <<"1", "0", " ", "K">> -> 10240
                       [] size_str = <<"3", "k", "b">> -> 3072
                       [] size_str = <<"2", "M", "i", "B">> -> 2097152
                       [] size_str = <<"7", "B">> -> 7
                       [] OTHER -> AssertionFailed

\* renderings of bytes_to_size_str
SizeRenderings ==
    spc = "formatted" =>
        /\ bytes = 0 => size_str = <<"0", "B">>
        /\ bytes = 1 => size_str = <<"1", ".", "0", "0", " ", "B">>
        /\ bytes = 1023 => size_str = <<"1", "0", "2", "3", ".", "0", "0", " ", "B">>
        /\ bytes = 1024 => size_str = <<"1", ".", "0", "0", " ", "K", "B">>
        /\ bytes = 1152 => size_str = <<"1", ".", "1", "2", " ", "K", "B">>
        /\ bytes = 1200 => size_str = <<"1", ".", "1", "7", " ", "K", "B">>

\* no file request is made without a file id and a file name: reading an
\* unbound local raises before line 264
FileRequestHasNameAndId ==
    ("file" \in requests \/ "aria2c" \in requests) => (file_id /\ filename # None)

\* a rejected response keeps an upload of two or more chunks from Completed:
\* every pooled future is handed to the loop after the flag was set
RejectionSeenWithPool == (chunks >= 2 /\ failed) => outcome # "Completed"

\* a Completed upload has stored a response with a url, which
\* get_download_page returns
CompletedHasUrl == outcome = "Completed" => (data.url /\ get_download_page = "url")

\* the requests of a Completed upload of a file that is not empty
ExactChunksNonEmpty ==
    (outcome = "Completed" /\ file_size >= 1)
        => sent = ExpectedRequests(file_size, chunk_size)

\* a KeyboardInterrupt caught by line 193 ends upload() in Cancelled, unless
\* a later one leaves it as an exception
CaughtInterruptCancels ==
    (mpc = "returned" /\ "User cancelled the operation." \in reported)
        => outcome = "Cancelled"

====
